---- MODULE Spec2Model ----
(***************************************************************************)
(* operchain: the memoizing predicate cache (internal/pcache) and the rule *)
(* chain executor (chain.go), as a machine of goroutines.  Every goroutine *)
(* has a stack of frames (its position in the code); one action is one     *)
(* step of one goroutine on the shared state.                              *)
(***************************************************************************)
EXTENDS Integers, Sequences, FiniteSets, TLC

\* ------------------------------------------------------------------ bounds

\* Longest child list of an And/Or predicate.
MaxArity == 2
\* Eval calls a single client goroutine issues one after the other.
MaxCalls == 2
\* Longest rule list of the parent chain.
MaxRules == 2

\* ------------------------------------------------------------- predicates

\* Identities of the predicates made with NewPredicate (user functions).
Leaves == {"p1", "p2"}

\* Caches the client made itself with pcache.New().
UserCaches == {"K0", "K1"}

\* The goroutines: 0 is the caller, the others are spawned.
Threads == {0, 1, 2}

Leaf(id) == [kind |-> "leaf", id |-> id]

LeafPreds == {Leaf(id) : id \in Leaves}

\* The child lists And and Or are given.
KidLists == UNION {[1..n -> LeafPreds] : n \in 0..MaxArity}

\* c.And(p...), c.Or(p...): the closure keeps c (home) and the children.
AndPred(home, kids) == [kind |-> "and", home |-> home, kids |-> kids]

OrPred(home, kids) == [kind |-> "or", home |-> home, kids |-> kids]

\* c.Not(p)
NotPred(home, kid) == [kind |-> "not", home |-> home, kids |-> <<kid>>]

\* c.True(), c.False()
TruePred == [kind |-> "true"]

FalsePred == [kind |-> "false"]

\* The predicates a client builds on its cache K0.
Composites ==
    {AndPred("K0", ks) : ks \in KidLists} \cup {OrPred("K0", ks) : ks \in KidLists}
    \cup {NotPred("K0", p) : p \in LeafPreds} \cup {TruePred, FalsePred}

\* The chains: the one the host runs and the one it delegates to.
Chains == {"parent", "child"}

\* Every cache: the client's own, and c.cache of each chain (named as the chain).
CacheIds == UserCaches \cup Chains

\* The nil error, the errors actions record, the error loadResources returns.
NoErr == "nil"

Errs == {"e1", "e2"}

LoadErr == "eload"

\* The delays actions request (time.Duration).
Delays == {-1, 0, 2, 5}

\* Rule.When == nil
NilPred == [kind |-> "nil"]

\* The actions: c.Requeue(d), c.Stop(), c.Error(e), Sequential(fns...),
\* Parallel(fns...), c.Subchain(sub).
Requeue(c, d) == [op |-> "requeue", c |-> c, d |-> d]

Stop(c) == [op |-> "stop", c |-> c]

Error(c, e) == [op |-> "error", c |-> c, e |-> e]

Sequential(fns) == [op |-> "seq", fns |-> fns]

Parallel(fns) == [op |-> "par", fns |-> fns]

Subchain(c, sub) == [op |-> "sub", c |-> c, sub |-> sub]

\* The mutexes: Cache.lock of every cache, Chain.lock of every chain.
CacheLock(k) == <<"cache", k>>

ChainLock(c) == <<"chain", c>>

Mutexes == {CacheLock(k) : k \in CacheIds} \cup {ChainLock(c) : c \in Chains}

\* The holders of a mutex no goroutine holds.
Free == {}

\* What a user function may return when it is invoked: it reads state the
\* engine does not control, which may differ from one invocation to the next.
FResults == BOOLEAN

VARIABLES
    cache,      \* cache[k]: the map c.c of cache k, predicate -> bool
    calls,      \* (ghost) <<k, p>> -> times Eval on cache k invoked p.f
    stack,      \* stack[t]: the frames of goroutine t, innermost first
    val,        \* val[t]: the bool goroutine t's last Eval or p.f returned
    comp,       \* the composite predicate the client built
    clients,    \* the client goroutines calling Eval
    budget,     \* budget[t]: Eval calls client t may still issue
    Rules,      \* Rules[c]: the rule list of chain c
    stop,       \* stop[c]: c.stop
    err,        \* err[c]: c.err
    interval,   \* interval[c]: c.interval
    wg,         \* wg[t]: the WaitGroup counter of the Parallel goroutine t runs
    res,        \* res[t]: what the last Run goroutine t called returned
    prev,       \* (ghost) the events of the top-level Run before, where recorded
    lock,       \* lock[m]: the goroutines holding mutex m (none or one)
    trace       \* (ghost) the events of the current top-level Run, in order

clientVars == <<comp, clients, budget>>

chainVars == <<Rules, prev, stop, err, interval, wg, res, trace>>

vars == <<cache, calls, stack, val, lock, clientVars, chainVars>>

\* ------------------------------------------------------------------ pcache

EmptyMap == [x \in {} |-> FALSE]

\* (mutant) the function returns with the mutex still locked
UnlockMissing(m, t) == [lock EXCEPT ![m] = {t}]

\* m.Lock(); defer m.Unlock(): the mutex as the locking function leaves it
\* when it returns to goroutine t.
Unlock(m, t) == [lock EXCEPT ![m] = Free]

Count(k, p) == IF <<k, p>> \in DOMAIN calls THEN calls[<<k, p>>] ELSE 0

Bump(k, p) == (<<k, p>> :> (Count(k, p) + 1)) @@ calls

\* (mutant) a lookup that never finds the predicate
isInCacheMiss(k, p) == [ok |-> FALSE, val |-> FALSE]

\* isInCache: val, ok := c.c[p]
isInCache(k, p) ==
    IF p \in DOMAIN cache[k]
    THEN [ok |-> TRUE, val |-> cache[k][p]]
    ELSE [ok |-> FALSE, val |-> FALSE]

\* addToCache: c.c[p] = value
addToCache(k, p, value) == [cache EXCEPT ![k] = (p :> value) @@ cache[k]]

Push(t, frames) == [stack EXCEPT ![t] = frames \o Tail(stack[t])]

Top(t) == Head(stack[t])

At(t, pc) == stack[t] # <<>> /\ Top(t).pc = pc

\* Eval, lines 30-32: a hit returns the stored value, a miss goes on to p.f().
EvalLookup(t) ==
    /\ At(t, "Eval")
    /\ lock[CacheLock(Top(t).k)] = Free
    /\ lock' = Unlock(CacheLock(Top(t).k), t)
    /\ LET f == Top(t)
           r == isInCache(f.k, f.p)
       IN IF r.ok
          THEN /\ stack' = Push(t, <<>>)
               /\ val' = [val EXCEPT ![t] = r.val]
          ELSE /\ stack' = Push(t, <<[pc |-> "Invoke", k |-> f.k, p |-> f.p]>>)
               /\ val' = val
    /\ UNCHANGED <<cache, calls, clientVars, chainVars>>

\* (mutants) loops that never return early
AndNoShortCircuit(v) == "next"

OrNoShortCircuit(v) == "next"

\* What the loop of And's or Or's function does with child i's value v:
\* "ret" (return v now) or "next" (go on with the next child).
AndOnChild(v) == IF ~v THEN "ret" ELSE "next"

OrOnChild(v) == IF v THEN "ret" ELSE "next"

\* What And's / Or's function returns when its loop runs out of children.
LoopDefault(kind) == (kind = "and")

\* Eval line 33, val := p.f(): a user function returns what it reads; True and
\* False return their constant; And, Or and Not start on their first child,
\* evaluated against the cache they were made on.
Invoke(t) ==
    /\ At(t, "Invoke")
    /\ LET f == Top(t)
           p == f.p
           add == [pc |-> "Add", k |-> f.k, p |-> p]
       IN /\ calls' = Bump(f.k, p)
          /\ CASE p.kind = "leaf" ->
                    \E v \in FResults :
                        /\ val' = [val EXCEPT ![t] = v]
                        /\ stack' = Push(t, <<add>>)
               [] p.kind \in {"true", "false"} ->
                    /\ val' = [val EXCEPT ![t] = (p.kind = "true")]
                    /\ stack' = Push(t, <<add>>)
               [] OTHER ->
                    IF Len(p.kids) = 0
                    THEN /\ val' = [val EXCEPT ![t] = LoopDefault(p.kind)]
                         /\ stack' = Push(t, <<add>>)
                    ELSE /\ val' = val
                         /\ stack' = Push(t, <<[pc |-> "Eval", k |-> p.home, p |-> p.kids[1]],
                                               [pc |-> "Test", p |-> p, i |-> 1], add>>)
    /\ UNCHANGED <<cache, clientVars, lock, chainVars>>

\* The body of And's, Or's and Not's function after c.Eval(child i) returned.
Test(t) ==
    /\ At(t, "Test")
    /\ LET f == Top(t)
           p == f.p
           v == val[t]
           what == CASE p.kind = "and" -> AndOnChild(v)
                     [] p.kind = "or" -> OrOnChild(v)
                     [] OTHER -> "not"
       IN CASE what = "not" ->
                 /\ val' = [val EXCEPT ![t] = ~v]
                 /\ stack' = Push(t, <<>>)
            [] what = "ret" ->
                 /\ val' = val
                 /\ stack' = Push(t, <<>>)
            [] OTHER ->
                 IF f.i = Len(p.kids)
                 THEN /\ val' = [val EXCEPT ![t] = LoopDefault(p.kind)]
                      /\ stack' = Push(t, <<>>)
                 ELSE /\ val' = val
                      /\ stack' = Push(t, <<[pc |-> "Eval", k |-> p.home, p |-> p.kids[f.i + 1]],
                                            [pc |-> "Test", p |-> p, i |-> f.i + 1]>>)
    /\ UNCHANGED <<cache, calls, clientVars, lock, chainVars>>

\* Eval lines 34-35: c.addToCache(p, val); return val
AddToCache(t) ==
    /\ At(t, "Add")
    /\ lock[CacheLock(Top(t).k)] = Free
    /\ lock' = Unlock(CacheLock(Top(t).k), t)
    /\ cache' = addToCache(Top(t).k, Top(t).p, val[t])
    /\ stack' = Push(t, <<>>)
    /\ UNCHANGED <<calls, val, clientVars, chainVars>>

\* ----------------------------------------------------- clients of pcache

\* The predicates a client holds: the ones it made.
Held == LeafPreds \cup {comp}

\* A client goroutine calls k.Eval(p). The frame under the call remembers the
\* cache and the counts at the call (ghost), for the properties to compare.
ClientCall(t) ==
    /\ t \in clients
    /\ stack[t] = <<>>
    /\ budget[t] > 0
    /\ \E k \in UserCaches, p \in Held :
          stack' = [stack EXCEPT ![t] =
                       <<[pc |-> "Eval", k |-> k, p |-> p],
                         [pc |-> "Obs", k |-> k, p |-> p,
                          before |-> cache, base |-> calls]>>]
    /\ budget' = [budget EXCEPT ![t] = @ - 1]
    /\ UNCHANGED <<cache, calls, val, comp, clients, lock, chainVars>>

\* The client takes the value Eval returned.
ClientObserve(t) ==
    /\ At(t, "Obs")
    /\ stack' = Push(t, <<>>)
    /\ UNCHANGED <<cache, calls, val, clientVars, lock, chainVars>>

\* The chain fields as Go zeroes them; no chain runs in SpecCache.
ChainIdle ==
    /\ stop = [c \in Chains |-> FALSE]
    /\ err = [c \in Chains |-> NoErr]
    /\ interval = [c \in Chains |-> 0]
    /\ wg = [t \in Threads |-> 0]
    /\ res = [t \in Threads |-> [after |-> 0, err |-> NoErr]]
    /\ trace = <<>>
    /\ prev = <<>>

\* The goroutines cs call Eval, n times each.
ClientsAre(cs, n) ==
    /\ clients = cs
    /\ budget = [t \in Threads |-> IF t \in cs THEN n ELSE 0]

\* A client built comp on K0; no Eval was called yet.
InitClients(cs, n) ==
    /\ cache = [k \in CacheIds |-> EmptyMap]
    /\ calls = EmptyMap
    /\ stack = [t \in Threads |-> <<>>]
    /\ lock = [m \in Mutexes |-> Free]
    /\ val = [t \in Threads |-> FALSE]
    /\ comp \in Composites
    /\ Rules = [c \in Chains |-> <<>>]
    /\ ChainIdle
    /\ ClientsAre(cs, n)

InitCache == InitClients({0}, MaxCalls) \/ InitClients({0, 1}, 1)

NextCache ==
    \E t \in Threads :
        \/ ClientCall(t)
        \/ ClientObserve(t)
        \/ EvalLookup(t)
        \/ Invoke(t)
        \/ Test(t)
        \/ AddToCache(t)

SpecCache == InitCache /\ [][NextCache]_vars

\* ------------------------------------------------------------------- chain

Log(events) == trace \o events

\* (mutant) Run leaves the stop flag as it finds it
ResetStopKeep(c) == stop

\* Run line 56: c.stop = false
ResetStop(c) == [stop EXCEPT ![c] = FALSE]

\* (mutant) any smaller delay is taken, positive or not
doRequeueAnySign(c, d) == [interval EXCEPT ![c] = IF @ = 0 \/ d < @ THEN d ELSE @]

\* (mutant) the last request wins
doRequeueLast(c, d) == [interval EXCEPT ![c] = IF d > 0 THEN d ELSE @]

\* doRequeue, under c.lock: keep the smaller positive interval
doRequeue(c, d) ==
    [interval EXCEPT ![c] = IF d > 0 /\ (@ = 0 \/ d < @) THEN d ELSE @]

\* (mutant) a stop reaches every chain
doStopAll(c) == [x \in Chains |-> TRUE]

\* doStop, under c.lock
doStop(c) == [stop EXCEPT ![c] = TRUE]

\* doError, under c.lock
doError(c, e) == [err EXCEPT ![c] = e]

\* Run lines 56-59: the reset, and a new cache for c.cache.
RunReset(t) ==
    /\ At(t, "Run")
    /\ LET c == Top(t).c IN
       /\ stop' = ResetStop(c)
       /\ err' = [err EXCEPT ![c] = NoErr]
       /\ interval' = [interval EXCEPT ![c] = 0]
       /\ cache' = [cache EXCEPT ![c] = EmptyMap]
       /\ calls' = [kp \in {x \in DOMAIN calls : x[1] # c} |-> calls[kp]]
       /\ stack' = Push(t, <<[pc |-> "Load", c |-> c]>>)
       /\ trace' = Log(<<[ev |-> "start", c |-> c]>>)
    /\ UNCHANGED <<val, clientVars, lock, Rules, prev, wg, res>>

\* Run lines 60-62: loadResources fetches through the client; it returns nil
\* or the client's error, and on an error Run returns at once.
LoadResources(t) ==
    /\ At(t, "Load")
    /\ LET c == Top(t).c IN
       \E e \in {NoErr, LoadErr} :
          IF e = NoErr
          THEN /\ stack' = Push(t, <<[pc |-> "Rule", c |-> c, i |-> 1]>>)
               /\ UNCHANGED <<res, trace>>
          ELSE /\ stack' = Push(t, <<>>)
               /\ res' = [res EXCEPT ![t] = [after |-> 0, err |-> e]]
               /\ trace' = Log(<<[ev |-> "ret", c |-> c, after |-> 0, err |-> e]>>)
    /\ UNCHANGED <<cache, calls, val, clientVars, lock, Rules, prev, stop, err, interval, wg>>

\* The frames of rule i's action and of the halt check after it.
Fire(c, i) ==
    <<[pc |-> "Do", a |-> Rules[c][i].Do], [pc |-> "Check", c |-> c, i |-> i]>>

\* Run line 63-64 and 71: the loop head. Past the last rule Run returns the
\* interval and nil; a rule without predicate runs its action; otherwise the
\* predicate is evaluated against c.cache.
RunRule(t) ==
    /\ At(t, "Rule")
    /\ LET c == Top(t).c
           i == Top(t).i
       IN IF i > Len(Rules[c])
          THEN /\ stack' = Push(t, <<>>)
               /\ res' = [res EXCEPT ![t] = [after |-> interval[c], err |-> NoErr]]
               /\ trace' = Log(<<[ev |-> "ret", c |-> c, after |-> interval[c],
                                  err |-> NoErr]>>)
          ELSE IF Rules[c][i].When = NilPred
          THEN /\ stack' = Push(t, Fire(c, i))
               /\ trace' = Log(<<[ev |-> "do", c |-> c, i |-> i]>>)
               /\ res' = res
          ELSE /\ stack' = Push(t, <<[pc |-> "Eval", k |-> c, p |-> Rules[c][i].When],
                                      [pc |-> "When", c |-> c, i |-> i]>>)
               /\ UNCHANGED <<res, trace>>
    /\ UNCHANGED <<cache, calls, val, clientVars, lock, Rules, prev, stop, err, interval, wg>>

\* (mutant) the action runs whatever the predicate says
RuleFiresAlways(v) == TRUE

\* Run line 64: the action runs when c.cache.Eval(rule.When) is true.
RuleFires(v) == v

\* Run line 64, after Eval returned.
RunWhen(t) ==
    /\ At(t, "When")
    /\ LET c == Top(t).c
           i == Top(t).i
           w == [ev |-> "when", c |-> c, i |-> i, v |-> val[t]]
       IN IF RuleFires(val[t])
          THEN /\ stack' = Push(t, Fire(c, i))
               /\ trace' = Log(<<w, [ev |-> "do", c |-> c, i |-> i]>>)
          ELSE /\ stack' = Push(t, <<[pc |-> "Rule", c |-> c, i |-> i + 1]>>)
               /\ trace' = Log(<<w>>)
    /\ UNCHANGED <<cache, calls, val, clientVars, lock, Rules, prev, stop, err, interval, wg, res>>

\* (mutants) only a stop, only an error halts the run
HaltedOnStopOnly(c) == stop[c]

HaltedOnErrOnly(c) == err[c] # NoErr

\* Run line 66: if c.stop || c.err != nil
Halted(c) == stop[c] \/ err[c] # NoErr

\* Run lines 66-68: the halt check after rule i's action returned.
RunCheck(t) ==
    /\ At(t, "Check")
    /\ LET c == Top(t).c
           i == Top(t).i
           d == [ev |-> "done", c |-> c, i |-> i]
       IN IF Halted(c)
          THEN /\ stack' = Push(t, <<>>)
               /\ res' = [res EXCEPT ![t] = [after |-> interval[c], err |-> err[c]]]
               /\ trace' = Log(<<d, [ev |-> "ret", c |-> c, after |-> interval[c],
                                     err |-> err[c]]>>)
          ELSE /\ stack' = Push(t, <<[pc |-> "Rule", c |-> c, i |-> i + 1]>>)
               /\ trace' = Log(<<d>>)
               /\ res' = res
    /\ UNCHANGED <<cache, calls, val, clientVars, lock, Rules, prev, stop, err, interval, wg>>

DoingOp(t, op) == At(t, "Do") /\ Top(t).a.op = op

\* The action c.Requeue(d) returned: c.doRequeue(d)
ActRequeue(t) ==
    /\ DoingOp(t, "requeue")
    /\ LET a == Top(t).a IN
       /\ lock[ChainLock(a.c)] = Free
       /\ lock' = Unlock(ChainLock(a.c), t)
       /\ interval' = doRequeue(a.c, a.d)
       /\ trace' = Log(<<[ev |-> "requeue", c |-> a.c, d |-> a.d, by |-> t]>>)
    /\ stack' = Push(t, <<>>)
    /\ UNCHANGED <<cache, calls, val, clientVars, Rules, prev, stop, err, wg, res>>

\* The action c.Stop() returned: c.doStop()
ActStop(t) ==
    /\ DoingOp(t, "stop")
    /\ LET a == Top(t).a IN
       /\ lock[ChainLock(a.c)] = Free
       /\ lock' = Unlock(ChainLock(a.c), t)
       /\ stop' = doStop(a.c)
       /\ trace' = Log(<<[ev |-> "stop", c |-> a.c, by |-> t]>>)
    /\ stack' = Push(t, <<>>)
    /\ UNCHANGED <<cache, calls, val, clientVars, Rules, prev, err, interval, wg, res>>

\* The action c.Error(e) returned: c.doError(e)
ActError(t) ==
    /\ DoingOp(t, "error")
    /\ LET a == Top(t).a IN
       /\ lock[ChainLock(a.c)] = Free
       /\ lock' = Unlock(ChainLock(a.c), t)
       /\ err' = doError(a.c, a.e)
       /\ trace' = Log(<<[ev |-> "error", c |-> a.c, e |-> a.e, by |-> t]>>)
    /\ stack' = Push(t, <<>>)
    /\ UNCHANGED <<cache, calls, val, clientVars, Rules, prev, stop, interval, wg, res>>

\* (mutant) Sequential runs its first action and leaves the others out
ActSequentialFirst(t) ==
    /\ DoingOp(t, "seq")
    /\ stack' = Push(t, <<[pc |-> "Do", a |-> Top(t).a.fns[1]]>>)
    /\ UNCHANGED <<cache, calls, val, clientVars, lock, chainVars>>

\* Sequential: for _, fn := range fns { fn(ctx) }
ActSequential(t) ==
    /\ DoingOp(t, "seq")
    /\ LET fns == Top(t).a.fns IN
       stack' = Push(t, [j \in 1..Len(fns) |-> [pc |-> "Do", a |-> fns[j]]])
    /\ UNCHANGED <<cache, calls, val, clientVars, lock, chainVars>>

\* The goroutines that are not running.
Idle == {g \in Threads \ {0} : stack[g] = <<>>}

\* Parallel lines 128-135: wg.Add(len(fns)) and one goroutine per fn, which
\* runs fn and then wg.Done(); the caller goes on to wg.Wait().
ActParallel(t) ==
    /\ DoingOp(t, "par")
    /\ LET fns == Top(t).a.fns
           n == Len(fns)
       IN /\ Cardinality(Idle) >= n
          /\ LET g == CHOOSE f \in [1..n -> Idle] : \A x, y \in 1..n : x # y => f[x] # f[y]
             IN stack' = [u \in Threads |->
                            IF \E j \in 1..n : g[j] = u
                            THEN LET j == CHOOSE j \in 1..n : g[j] = u
                                 IN <<[pc |-> "Do", a |-> fns[j]],
                                      [pc |-> "Done", parent |-> t]>>
                            ELSE IF u = t
                            THEN <<[pc |-> "Wait"]>> \o Tail(stack[t])
                            ELSE stack[u]]
          /\ wg' = [wg EXCEPT ![t] = n]
          /\ trace' = Log(<<[ev |-> "fork", c |-> "go", by |-> t, fns |-> fns]>>)
    /\ UNCHANGED <<cache, calls, val, clientVars, lock, Rules, prev, stop, err, interval, res>>

\* Parallel line 132: defer wg.Done(), and the goroutine ends.
GoDone(t) ==
    /\ At(t, "Done")
    /\ wg' = [wg EXCEPT ![Top(t).parent] = @ - 1]
    /\ stack' = Push(t, <<>>)
    /\ UNCHANGED <<cache, calls, val, clientVars, lock, Rules, prev, stop, err, interval, res, trace>>

\* (mutant) the caller goes on when the first goroutine is done
WaitOverFirst(n) == n <= 1

\* wg.Wait() returns when the counter is zero.
WaitOver(n) == n = 0

\* Parallel line 136: wg.Wait()
ParallelWait(t) ==
    /\ At(t, "Wait")
    /\ WaitOver(wg[t])
    /\ stack' = Push(t, <<>>)
    /\ trace' = Log(<<[ev |-> "join", c |-> "go", by |-> t]>>)
    /\ UNCHANGED <<cache, calls, val, clientVars, lock, Rules, prev, stop, err, interval, wg, res>>

\* Subchain line 144: result, err := sub.Run(ctx, c.req)
ActSubchain(t) ==
    /\ DoingOp(t, "sub")
    /\ LET a == Top(t).a IN
       stack' = Push(t, <<[pc |-> "Run", c |-> a.sub],
                          [pc |-> "FoldErr", c |-> a.c],
                          [pc |-> "FoldRq", c |-> a.c]>>)
    /\ UNCHANGED <<cache, calls, val, clientVars, lock, chainVars>>

\* (mutant) the child's error is dropped
FoldErrorNone(c, r) == err

\* Subchain lines 145-147: if err != nil { c.doError(err) }
FoldError(c, r) == IF r.err # NoErr THEN doError(c, r.err) ELSE err

SubFoldErr(t) ==
    /\ At(t, "FoldErr")
    /\ IF res[t].err # NoErr
       THEN /\ lock[ChainLock(Top(t).c)] = Free
            /\ lock' = Unlock(ChainLock(Top(t).c), t)
       ELSE lock' = lock
    /\ err' = FoldError(Top(t).c, res[t])
    /\ stack' = Push(t, <<>>)
    /\ trace' = Log(<<[ev |-> "fold", c |-> Top(t).c, after |-> res[t].after,
                       err |-> res[t].err]>>)
    /\ UNCHANGED <<cache, calls, val, clientVars, Rules, prev, stop, interval, wg, res>>

\* (mutant) the child's delay is dropped
FoldDelayNone(c, r) == interval

\* Subchain lines 148-150: if result.RequeueAfter > 0 { c.doRequeue(...) }
FoldDelay(c, r) == IF r.after > 0 THEN doRequeue(c, r.after) ELSE interval

SubFoldRq(t) ==
    /\ At(t, "FoldRq")
    /\ IF res[t].after > 0
       THEN /\ lock[ChainLock(Top(t).c)] = Free
            /\ lock' = Unlock(ChainLock(Top(t).c), t)
       ELSE lock' = lock
    /\ interval' = FoldDelay(Top(t).c, res[t])
    /\ stack' = Push(t, <<>>)
    /\ UNCHANGED <<cache, calls, val, clientVars, Rules, prev, stop, err, wg, res, trace>>

\* ------------------------------------------------------------------- host

\* The host (the reconciler) calls Run on the parent chain; the goroutines'
\* locals of a call before are dead.
HostCall ==
    /\ \A t \in Threads : stack[t] = <<>>
    /\ stack' = [stack EXCEPT ![0] = <<[pc |-> "Run", c |-> "parent"], [pc |-> "Report"]>>]
    /\ trace' = <<>>
    /\ val' = [t \in Threads |-> FALSE]
    /\ res' = [t \in Threads |-> [after |-> 0, err |-> NoErr]]
    /\ UNCHANGED <<cache, calls, clientVars, lock, Rules, stop, err, interval, wg>>

\* Run called again and again.
HostRun == HostCall /\ prev' = prev

\* The same, the events of the Run before kept for comparison.
HostRerun == HostCall /\ prev' = trace

\* Run returned to the host: res[0] is its result.
HostReport ==
    /\ At(0, "Report")
    /\ stack' = Push(0, <<>>)
    /\ UNCHANGED <<cache, calls, val, clientVars, lock, chainVars>>

\* ----------------------------------------------------------------- chains

\* The composite predicate used as a rule's When, made on the user's cache.
RuleComp == AndPred("K0", <<Leaf("p1"), Leaf("p2")>>)

\* The actions of rules without and with a predicate.
PlainActs(c) == {Requeue(c, d) : d \in Delays} \cup {Stop(c), Error(c, "e1")}

GuardedActs(c) == {Requeue(c, 2)}

\* Sequential(a, b) and Parallel(a, b)
SeqActs(c) ==
    {Sequential(<<Stop(c), Requeue(c, 2)>>),
     Sequential(<<Error(c, "e1"), Error(c, "e2")>>)}

ParActs(c) ==
    {Parallel(<<Requeue(c, 5), Requeue(c, 2)>>),
     Parallel(<<Error(c, "e1"), Error(c, "e2")>>)}

\* Delegation to the child chain.
SubActs(c) ==
    {Subchain(c, "child")}

ParentRules ==
    {[When |-> NilPred, Do |-> a] : a \in PlainActs("parent")}
    \cup {[When |-> Leaf("p1"), Do |-> a] : a \in GuardedActs("parent")}
    \cup {[When |-> RuleComp, Do |-> Requeue("parent", 5)]}
    \cup {[When |-> NilPred, Do |-> a] :
              a \in SeqActs("parent") \cup ParActs("parent") \cup SubActs("parent")}

ChildRules ==
    {[When |-> Leaf("p1"), Do |-> Requeue("child", 3)],
     [When |-> NilPred, Do |-> Stop("child")],
     [When |-> NilPred, Do |-> Error("child", "e1")]}

UsesChild(rs) == \E i \in 1..Len(rs) : rs[i].Do.op \in {"sub", "par"} /\
                    (rs[i].Do.op = "sub" \/ \E j \in 1..Len(rs[i].Do.fns) : rs[i].Do.fns[j].op = "sub")

RuleLists(S, n) == UNION {[1..m -> S] : m \in 0..n}

\* The rules of the chains that are run twice for comparison.
RerunRules ==
    {[When |-> NilPred, Do |-> a] :
        a \in {Requeue("parent", 2), Requeue("parent", 5), Stop("parent"),
               Error("parent", "e1"), Subchain("parent", "child"),
               Sequential(<<Stop("parent"), Requeue("parent", 2)>>),
               Parallel(<<Error("parent", "e1"), Error("parent", "e2")>>)}}
    \cup {[When |-> Leaf("p1"), Do |-> Requeue("parent", 2)],
          [When |-> RuleComp, Do |-> Requeue("parent", 5)]}

\* The same rules, and actions that call Error with a nil error after an
\* error was recorded: c.Error takes any error value.
NilErrRules ==
    RerunRules
    \cup {[When |-> NilPred, Do |-> a] :
             a \in {Sequential(<<Error("parent", "e1"), Error("parent", NoErr)>>),
                    Parallel(<<Error("parent", "e1"), Error("parent", NoErr)>>)}}

\* Rules with an action that runs the child from two goroutines at once,
\* Parallel(c.Subchain(sub), c.Subchain(sub)), among plain ones.
RaceRules ==
    {[When |-> NilPred, Do |-> a] :
        a \in {Sequential(<<Error("parent", "e1"), Requeue("parent", 2)>>),
               Parallel(<<Subchain("parent", "child"), Subchain("parent", "child")>>)}}
    \cup {[When |-> RuleComp, Do |-> Stop("parent")]}

\* The rule lists of the child: one rule, or a requeue and one more rule.
ChildLists ==
    {cs \in RuleLists(ChildRules, 2) : Len(cs) = 2 => cs[1].Do.op = "requeue"}

\* After InitializeChain: the rule lists are set (the parent's from P, the
\* child's from L), the run state is Go's zero.
InitRules(P, L) ==
    /\ cache = [k \in CacheIds |-> EmptyMap]
    /\ calls = EmptyMap
    /\ stack = [t \in Threads |-> <<>>]
    /\ lock = [m \in Mutexes |-> Free]
    /\ val = [t \in Threads |-> FALSE]
    /\ comp = RuleComp
    /\ clients = {}
    /\ budget = [t \in Threads |-> 0]
    /\ \E rs \in P :
          /\ Rules \in IF UsesChild(rs)
                       THEN {[c \in Chains |-> IF c = "parent" THEN rs ELSE cs] :
                                cs \in L}
                       ELSE {[c \in Chains |-> IF c = "parent" THEN rs ELSE <<>>]}
    /\ ChainIdle

Init == InitRules(RuleLists(ParentRules, MaxRules), ChildLists)

InitTwice == InitRules(RuleLists(RerunRules, MaxRules), ChildLists)

\* One step of a goroutine in Run, in an action or in Eval.
Step ==
    \E t \in Threads :
        \/ RunReset(t)
        \/ LoadResources(t)
        \/ RunRule(t)
        \/ RunWhen(t)
        \/ RunCheck(t)
        \/ ActRequeue(t)
        \/ ActStop(t)
        \/ ActError(t)
        \/ ActSequential(t)
        \/ ActParallel(t)
        \/ GoDone(t)
        \/ ParallelWait(t)
        \/ ActSubchain(t)
        \/ SubFoldErr(t)
        \/ SubFoldRq(t)
        \/ EvalLookup(t)
        \/ Invoke(t)
        \/ Test(t)
        \/ AddToCache(t)

Next ==
    \/ HostRun
    \/ HostReport
    \/ Step

Spec == Init /\ [][Next]_vars

NextTwice ==
    \/ HostRerun
    \/ HostReport
    \/ Step

SpecTwice == InitTwice /\ [][NextTwice]_vars

\* The parent runs the child from two goroutines in one rule at most.
RaceLists ==
    {rs \in RuleLists(RaceRules, MaxRules) :
        Cardinality({i \in 1..Len(rs) : rs[i].Do.op = "par"}) <= 1}

InitRace == InitRules(RaceLists, RuleLists(ChildRules, 1))

SpecRace == InitRace /\ [][Next]_vars

\* Rules whose predicates and actions cover what may take a lock: a composite
\* predicate, mutators alone, in Sequential and in Parallel, a Subchain.
LiveRules ==
    {[When |-> NilPred, Do |-> a] :
        a \in {Error("parent", "e1"), Subchain("parent", "child"),
               Sequential(<<Stop("parent"), Requeue("parent", 2)>>),
               Parallel(<<Requeue("parent", 5), Requeue("parent", 2)>>)}}
    \cup {[When |-> RuleComp, Do |-> Requeue("parent", 5)]}

\* A chain to run, or a client of a cache with a composite predicate.
InitLive ==
    \/ InitRules(RuleLists(LiveRules, MaxRules), ChildLists)
    \/ InitClients({0}, 1)

NextLive ==
    \/ HostRun
    \/ HostReport
    \/ Step
    \/ \E t \in Threads : ClientCall(t) \/ ClientObserve(t)

\* A goroutine that can go on does; the host and the clients call when they
\* like.
Progress ==
    \/ HostReport
    \/ Step
    \/ \E t \in Threads : ClientObserve(t)

SpecLive == InitLive /\ [][NextLive]_vars /\ WF_vars(Progress)

InitNil == InitRules(RuleLists(NilErrRules, MaxRules), ChildLists)

SpecNil == InitNil /\ [][Next]_vars

\* ------------------------------- Run with the cache passed by the caller

\* The Chain without a cache of its own: Run(ctx, cache) evaluates the rule
\* predicates against the cache its caller passes, and Subchain passes nil.

\* The nil *pcache.Cache
NilCache == "nil"

\* The host calls Run(ctx, k) on the parent chain with a cache it made.
HostRunWith ==
    /\ \A t \in Threads : stack[t] = <<>>
    /\ \E k \in UserCaches :
          stack' = [stack EXCEPT ![0] =
                       <<[pc |-> "RunWith", c |-> "parent", k |-> k], [pc |-> "Report"]>>]
    /\ trace' = <<>>
    /\ val' = [t \in Threads |-> FALSE]
    /\ res' = [t \in Threads |-> [after |-> 0, err |-> NoErr]]
    /\ UNCHANGED <<cache, calls, clientVars, lock, Rules, prev, stop, err, interval, wg>>

\* Run's reset: stop, err and interval, and no cache is made. The frame
\* under the loop holds the parameter cache for the length of the call.
RunWithReset(t) ==
    /\ At(t, "RunWith")
    /\ LET c == Top(t).c IN
       /\ stop' = ResetStop(c)
       /\ err' = [err EXCEPT ![c] = NoErr]
       /\ interval' = [interval EXCEPT ![c] = 0]
       /\ stack' = Push(t, <<[pc |-> "Rule", c |-> c, i |-> 1],
                             [pc |-> "Cache", c |-> c, k |-> Top(t).k]>>)
       /\ trace' = Log(<<[ev |-> "start", c |-> c]>>)
    /\ UNCHANGED <<cache, calls, val, clientVars, lock, Rules, prev, wg, res>>

\* The parameter cache of the innermost Run goroutine t is in.
CacheArg(t) ==
    LET S == {i \in 1..Len(stack[t]) : stack[t][i].pc = "Cache"}
        j == CHOOSE i \in S : \A h \in S : i <= h
    IN stack[t][j].k

\* The loop head: as in RunRule, the predicate evaluated against the
\* parameter: cache.Eval(rule.When).
RunWithRule(t) ==
    /\ At(t, "Rule")
    /\ LET c == Top(t).c
           i == Top(t).i
       IN IF i <= Len(Rules[c]) /\ Rules[c][i].When # NilPred
          THEN /\ stack' = Push(t, <<[pc |-> "Eval", k |-> CacheArg(t), p |-> Rules[c][i].When],
                                      [pc |-> "When", c |-> c, i |-> i]>>)
               /\ UNCHANGED <<cache, calls, val, clientVars, lock, chainVars>>
          ELSE RunRule(t)

\* Run returned: its parameter is gone.
RunWithReturn(t) ==
    /\ At(t, "Cache")
    /\ stack' = Push(t, <<>>)
    /\ UNCHANGED <<cache, calls, val, clientVars, lock, chainVars>>

\* Subchain: result, err := sub.Run(ctx, nil)
SubchainNil(t) ==
    /\ DoingOp(t, "sub")
    /\ LET a == Top(t).a IN
       stack' = Push(t, <<[pc |-> "RunWith", c |-> a.sub, k |-> NilCache],
                          [pc |-> "FoldErr", c |-> a.c],
                          [pc |-> "FoldRq", c |-> a.c]>>)
    /\ UNCHANGED <<cache, calls, val, clientVars, lock, chainVars>>

\* Eval on a cache that is there.
EvalOn(t) ==
    /\ At(t, "Eval")
    /\ Top(t).k # NilCache
    /\ EvalLookup(t)

\* Eval on the nil cache: isInCache takes c.lock of a nil c, the goroutine
\* panics with a nil pointer dereference and the process ends.
EvalNil(t) ==
    /\ At(t, "Eval")
    /\ Top(t).k = NilCache
    /\ stack' = [u \in Threads |-> IF u = t THEN <<[pc |-> "Panic"]>> ELSE <<>>]
    /\ UNCHANGED <<cache, calls, val, clientVars, lock, chainVars>>

StepWith ==
    \E t \in Threads :
        \/ RunWithReset(t)
        \/ RunWithRule(t)
        \/ RunWithReturn(t)
        \/ RunWhen(t)
        \/ RunCheck(t)
        \/ ActRequeue(t)
        \/ ActStop(t)
        \/ ActError(t)
        \/ ActSequential(t)
        \/ ActParallel(t)
        \/ GoDone(t)
        \/ ParallelWait(t)
        \/ SubchainNil(t)
        \/ SubFoldErr(t)
        \/ SubFoldRq(t)
        \/ EvalOn(t)
        \/ EvalNil(t)
        \/ Invoke(t)
        \/ Test(t)
        \/ AddToCache(t)

NextWith ==
    \/ HostRunWith
    \/ HostReport
    \/ StepWith

SpecWith == InitTwice /\ [][NextWith]_vars

\* ------------------------------------------------------ claims on pcache

\* The client's call frame of goroutine t, when its Eval has returned.
Returned(t) == At(t, "Obs")

\* The predicate was in the cache when the call of frame f was made.
WasCached(f) == f.p \in DOMAIN f.before[f.k]

\* The cache of frame f was fresh at the call: empty, nothing evaluated on it.
WasFresh(f) ==
    /\ f.before[f.k] = EmptyMap
    /\ \A kp \in DOMAIN f.base : kp[1] # f.k

\* C1: with a single goroutine calling Eval, no function is invoked twice
\* through the same cache; a call that misses invokes the function once and
\* stores what it returned; a call that hits returns the stored value and
\* invokes nothing, whatever the function would return now.
C1_EvalOnce ==
    clients = {0} =>
        /\ \A kp \in DOMAIN calls : calls[kp] <= 1
        /\ Returned(0) =>
              LET f == Top(0) IN
              /\ f.p \in DOMAIN cache[f.k]
              /\ cache[f.k][f.p] = val[0]
              /\ IF WasCached(f)
                 THEN val[0] = f.before[f.k][f.p] /\ calls = f.base
                 ELSE Count(f.k, f.p) = 1

\* A second call in a row found the predicate memoized.
C1_Witness ==
    /\ clients = {0}
    /\ budget[0] = 0
    /\ Returned(0)
    /\ WasCached(Top(0))
    /\ Top(0).p.kind = "leaf"

\* C2: also with goroutines calling Eval concurrently, no function is invoked
\* twice through the same cache, and two calls for the same predicate on the
\* same cache return the same value.
C2_EvalOnceConcurrent ==
    /\ \A kp \in DOMAIN calls : calls[kp] <= 1
    /\ \A t \in clients, u \in clients :
          (Returned(t) /\ Returned(u) /\ Top(t).k = Top(u).k /\ Top(t).p = Top(u).p)
              => val[t] = val[u]

\* C8: And(p1..pn) made on a fresh cache and evaluated against it: the result
\* is true iff every child is (memoized) true; when it is false, the children
\* up to the first false one were each invoked once and are in the cache, and
\* the later ones were not invoked and are absent from it.
C8_AndShortCircuit ==
    (/\ clients = {0}
     /\ Returned(0)
     /\ Top(0).p.kind = "and"
     /\ Top(0).p.home = Top(0).k
     /\ WasFresh(Top(0)))
    => LET k == Top(0).k
           kids == Top(0).p.kids
           n == Len(kids)
           m == cache[k]
       IN /\ val[0] = (\A i \in 1..n : kids[i] \in DOMAIN m /\ m[kids[i]])
          /\ val[0] => \A i \in 1..n : Count(k, kids[i]) = 1
          /\ ~val[0] =>
                \E j \in 1..n :
                    /\ \A i \in 1..j : kids[i] \in DOMAIN m /\ Count(k, kids[i]) = 1
                    /\ \A i \in 1..(j - 1) : m[kids[i]]
                    /\ ~m[kids[j]]
                    /\ \A i \in (j + 1)..n :
                          kids[i] \notin {kids[h] : h \in 1..j}
                              => kids[i] \notin DOMAIN m /\ Count(k, kids[i]) = 0

\* And(pa, pb) stopped at a false pa: pb is not in the cache.
C8_Witness ==
    /\ clients = {0}
    /\ Returned(0)
    /\ Top(0).p.kind = "and"
    /\ Top(0).p.home = Top(0).k
    /\ WasFresh(Top(0))
    /\ Len(Top(0).p.kids) = 2
    /\ ~val[0]
    /\ Top(0).p.kids[2] \notin DOMAIN cache[Top(0).k]

\* C9: Or(p1..pn) made on a fresh cache and evaluated against it: the result
\* is false iff every child is (memoized) false; when it is true, the children
\* up to the first true one were each invoked once and are in the cache, and
\* the later ones were not invoked and are absent from it.
C9_OrShortCircuit ==
    (/\ clients = {0}
     /\ Returned(0)
     /\ Top(0).p.kind = "or"
     /\ Top(0).p.home = Top(0).k
     /\ WasFresh(Top(0)))
    => LET k == Top(0).k
           kids == Top(0).p.kids
           n == Len(kids)
           m == cache[k]
       IN /\ (~val[0]) = (\A i \in 1..n : kids[i] \in DOMAIN m /\ ~m[kids[i]])
          /\ ~val[0] => \A i \in 1..n : Count(k, kids[i]) = 1
          /\ val[0] =>
                \E j \in 1..n :
                    /\ \A i \in 1..j : kids[i] \in DOMAIN m /\ Count(k, kids[i]) = 1
                    /\ \A i \in 1..(j - 1) : ~m[kids[i]]
                    /\ m[kids[j]]
                    /\ \A i \in (j + 1)..n :
                          kids[i] \notin {kids[h] : h \in 1..j}
                              => kids[i] \notin DOMAIN m /\ Count(k, kids[i]) = 0

\* Or(pa, pb) stopped at a true pa: pb is not in the cache.
C9_Witness ==
    /\ clients = {0}
    /\ Returned(0)
    /\ Top(0).p.kind = "or"
    /\ Top(0).p.home = Top(0).k
    /\ WasFresh(Top(0))
    /\ Len(Top(0).p.kids) = 2
    /\ val[0]
    /\ Top(0).p.kids[2] \notin DOMAIN cache[Top(0).k]

\* ------------------------------------------------------- claims on chain

SetMin(S) == CHOOSE x \in S : \A y \in S : x <= y

SetMax(S) == CHOOSE x \in S : \A y \in S : x >= y

\* The smallest positive delay of a set, 0 when it holds none.
MinPos(S) == IF {d \in S : d > 0} = {} THEN 0 ELSE SetMin({d \in S : d > 0})

\* A control event: Run started, a predicate was evaluated, an action started,
\* an action returned, Run returned.
IsCtl(e) == e.ev \in {"start", "when", "do", "done", "ret"}

\* A call of a mutator action, or the fold of a child's result.
IsMutation(e) == e.ev \in {"requeue", "stop", "error", "fold"}

\* The events of chain c, and its control events, in order.
Ev(c) == SelectSeq(trace, LAMBDA e : e.c = c)

Ctl(c) == SelectSeq(trace, LAMBDA e : e.c = c /\ IsCtl(e))

\* Event y is what the loop of c does on reaching rule i.
Reaches(c, i, y) ==
    IF i > Len(Rules[c])
    THEN y.ev = "ret" /\ y.err = NoErr
    ELSE IF Rules[c][i].When = NilPred
    THEN y.ev = "do" /\ y.i = i
    ELSE y.ev = "when" /\ y.i = i

\* Control event y may come right after control event x in chain c.
Follows(c, x, y) ==
    CASE x.ev = "start" -> (y.ev = "ret" /\ y.err = LoadErr) \/ Reaches(c, 1, y)
      [] x.ev = "when" -> IF x.v THEN y.ev = "do" /\ y.i = x.i
                                 ELSE Reaches(c, x.i + 1, y)
      [] x.ev = "do" -> y.ev = "done" /\ y.i = x.i
      [] x.ev = "done" -> y.ev = "ret" \/ Reaches(c, x.i + 1, y)
      [] OTHER -> y.ev = "start"

\* The host has the result the parent's Run returned.
HostSees ==
    At(0, "Report") =>
        LET r == trace[Len(trace)]
        IN r.ev = "ret" /\ r.c = "parent" /\ res[0] = [after |-> r.after, err |-> r.err]

\* C3: every chain's run goes through its rules in list order; a rule's action
\* starts exactly when the rule has no predicate or its predicate evaluated
\* true against the run's cache, a false predicate leads on to the next rule;
\* an action that started has returned before the chain does anything else,
\* and mutator calls and folds happen only while an action of the chain runs.
C3_RunOrder ==
    \A c \in Chains :
        LET C == Ctl(c)
            E == Ev(c)
        IN /\ C # <<>> => C[1].ev = "start"
           /\ \A n \in 1..(Len(C) - 1) : Follows(c, C[n], C[n + 1])
           /\ \A n \in 1..Len(C) :
                 (C[n].ev = "when" /\ \A x \in (n + 1)..Len(C) : C[x].ev # "start") =>
                     LET w == Rules[c][C[n].i].When
                     IN w \in DOMAIN cache[c] /\ cache[c][w] = C[n].v
           /\ \A n \in 1..Len(E) :
                 IsMutation(E[n]) => n > 1 /\ (IsMutation(E[n - 1]) \/ E[n - 1].ev = "do")

\* Rule 1's predicate was false and its action skipped, rule 2 ran.
C3_Witness ==
    /\ At(0, "Report")
    /\ \E n \in 1..Len(trace) :
          trace[n] = [ev |-> "when", c |-> "parent", i |-> 1, v |-> FALSE]
    /\ \E n \in 1..Len(trace) : trace[n] = [ev |-> "done", c |-> "parent", i |-> 2]
    /\ \A n \in 1..Len(trace) : trace[n] # [ev |-> "do", c |-> "parent", i |-> 1]

\* An error is recorded on the chain: by its action Error, or from a child.
IsError(e) == e.ev = "error" \/ (e.ev = "fold" /\ e.err # NoErr)

ErrorOf(e) == IF e.ev = "error" THEN e.e ELSE e.err

\* The positions of E, a chain's events, that lie in the action which
\* returned at position n: the mutations right before n.
Window(E, n) == {x \in 1..(n - 1) : \A y \in x..(n - 1) : IsMutation(E[y])}

\* The run returns right after the action that returned at position n of E,
\* and goes on to no other rule.
ReturnsAfter(E, n) ==
    /\ n < Len(E)
    /\ E[n + 1].ev = "ret"
    /\ n + 1 < Len(E) => E[n + 2].ev = "start"

\* C4: when the action of a rule recorded an error, Run returns right after
\* that action with the error recorded last, and no later rule is evaluated
\* or executed.
C4_ErrorHalts ==
    /\ HostSees
    /\ \A c \in Chains :
          LET E == Ev(c) IN
          \A n \in 1..Len(E) :
              (E[n].ev = "done" /\ \E x \in Window(E, n) : E[x].ev = "error") =>
                  /\ ReturnsAfter(E, n)
                  /\ E[n + 1].err = ErrorOf(E[SetMax({x \in Window(E, n) : IsError(E[x])})])

\* Rule 1 recorded e1; rule 2 has no predicate and never started.
C4_Witness ==
    /\ At(0, "Report")
    /\ Len(Rules["parent"]) = 2
    /\ Rules["parent"][2].When = NilPred
    /\ \E n \in 1..Len(trace) :
          trace[n].ev = "error" /\ trace[n].c = "parent" /\ trace[n].e = "e1"
    /\ res[0].err = "e1"
    /\ \A n \in 1..Len(trace) : trace[n] # [ev |-> "do", c |-> "parent", i |-> 2]

\* The positions of E that belong to the same run as position n, up to n.
RunUpTo(E, n) == {x \in 1..n : \A y \in (x + 1)..n : E[y].ev # "start"}

\* The delay accumulated in the run up to position n of E: the smallest
\* positive delay requested or folded in, 0 when there is none.
Accumulated(E, n) ==
    MinPos({E[x].d : x \in {y \in RunUpTo(E, n) : E[y].ev = "requeue"}}
           \cup {E[x].after : x \in {y \in RunUpTo(E, n) : E[y].ev = "fold"}})

\* C5: when the action of a rule requested stop and no error was recorded,
\* Run returns right after that action with a nil error and the delay
\* accumulated so far, and no later rule is evaluated or executed.
C5_StopHalts ==
    /\ HostSees
    /\ \A c \in Chains :
          LET E == Ev(c) IN
          \A n \in 1..Len(E) :
              (/\ E[n].ev = "done"
               /\ \E x \in Window(E, n) : E[x].ev = "stop"
               /\ \A x \in Window(E, n) : ~IsError(E[x]))
              => /\ ReturnsAfter(E, n)
                 /\ E[n + 1].err = NoErr
                 /\ E[n + 1].after = Accumulated(E, n)

\* Rule 1 stopped and then asked for 2; rule 2 never started; Run gave (2, nil).
C5_Witness ==
    /\ At(0, "Report")
    /\ Len(Rules["parent"]) = 2
    /\ Rules["parent"][2].When = NilPred
    /\ \E n \in 1..Len(trace) : trace[n].ev = "stop" /\ trace[n].c = "parent"
    /\ res[0] = [after |-> 2, err |-> NoErr]
    /\ \A n \in 1..Len(trace) : trace[n] # [ev |-> "do", c |-> "parent", i |-> 2]

\* C6: a Run in which goroutines of Parallel requested delays returns the
\* smallest positive delay requested in that run, in whatever order the
\* requests were applied.
C6_ParallelMinDelay ==
    /\ HostSees
    /\ \A c \in Chains :
          LET E == Ev(c) IN
          \A n \in 1..Len(E) :
              (/\ E[n].ev = "ret"
               /\ \E x \in RunUpTo(E, n) : E[x].ev = "requeue" /\ E[x].by # 0)
              => E[n].after = Accumulated(E, n)

\* The branches asked for 2 and then for 5, and Run returned 2.
C6_Witness ==
    /\ At(0, "Report")
    /\ res[0].after = 2
    /\ \E m \in 1..Len(trace), n \in 1..Len(trace) :
          /\ m < n
          /\ trace[m].ev = "requeue" /\ trace[m].d = 2 /\ trace[m].by # 0
          /\ trace[n].ev = "requeue" /\ trace[n].d = 5 /\ trace[n].by # 0

\* The goroutines Parallel started from goroutine t that still run.
Branches(t) ==
    {g \in Threads : /\ stack[g] # <<>>
                     /\ stack[g][Len(stack[g])].pc = "Done"
                     /\ stack[g][Len(stack[g])].parent = t}

\* C7: while a goroutine started by Parallel runs, the goroutine that called
\* Parallel waits in it; and when Parallel has returned, the mutator call of
\* every branch has been applied.
C7_ParallelJoins ==
    /\ \A t \in Threads : Branches(t) # {} => At(t, "Wait")
    /\ \A n \in 1..Len(trace) :
          trace[n].ev = "join" =>
              LET m == SetMax({x \in 1..n : trace[x].ev = "fork" /\ trace[x].by = trace[n].by})
                  fns == trace[m].fns
              IN \A j \in 1..Len(fns) :
                    fns[j].op \in {"requeue", "stop", "error"} =>
                        \E x \in (m + 1)..(n - 1) :
                            /\ trace[x].ev = fns[j].op
                            /\ trace[x].c = fns[j].c
                            /\ trace[x].by # trace[n].by

\* Parallel has returned and Run is at its halt check: no branch runs.
C7_Witness ==
    /\ \E n \in 1..Len(trace) : trace[n].ev = "join"
    /\ At(0, "Check")
    /\ \A g \in Threads \ {0} : stack[g] = <<>>

\* C10: a Run of the parent in which the child, run by Subchain, returned a
\* delay d > 0 and in which no error came up returns nil and the smallest
\* positive delay among the parent's own requests and the child's delays.
C10_SubchainDelay ==
    /\ HostSees
    /\ LET n == Len(trace)
           kids == {j \in 1..n : trace[j].c = "child" /\ trace[j].ev = "ret"}
           own == {j \in 1..n : trace[j].c = "parent" /\ trace[j].ev = "requeue"}
       IN (/\ n > 0
           /\ trace[n].c = "parent"
           /\ trace[n].ev = "ret"
           /\ \E j \in kids : trace[j].after > 0
           /\ \A j \in kids : trace[j].err = NoErr
           /\ \A j \in 1..n : ~(trace[j].c = "parent" /\ trace[j].ev = "error"))
          => /\ trace[n].err = NoErr
             /\ trace[n].after = MinPos({trace[j].d : j \in own}
                                        \cup {trace[j].after : j \in kids})

\* The parent had asked for 5, the child returned 3, the parent's Run gave 3.
C10_Witness ==
    /\ At(0, "Report")
    /\ res[0] = [after |-> 3, err |-> NoErr]
    /\ \E m \in 1..Len(trace), n \in 1..Len(trace) :
          /\ m < n
          /\ trace[m] = [ev |-> "requeue", c |-> "parent", d |-> 5, by |-> 0]
          /\ trace[n] = [ev |-> "ret", c |-> "child", after |-> 3, err |-> NoErr]

\* C11: when the child run by a parent's Subchain action returned an error,
\* the parent's Run returns right after that action with the child's error,
\* as after a call of Error, and goes on to no later rule.
C11_SubchainError ==
    LET E == Ev("parent") IN
    \A n \in 1..Len(E) :
        (E[n].ev = "done" /\ \E x \in Window(E, n) : E[x].ev = "fold" /\ E[x].err # NoErr) =>
            LET f == SetMax({x \in Window(E, n) : E[x].ev = "fold" /\ E[x].err # NoErr})
            IN /\ ReturnsAfter(E, n)
               /\ \A x \in (f + 1)..(n - 1) : E[x].ev # "error"
               /\ E[n + 1].err = E[f].err
               /\ At(0, "Report") => res[0].err = E[f].err

\* The child recorded e1; the parent's rule 2 never started; Run gave e1.
C11_Witness ==
    /\ At(0, "Report")
    /\ Len(Rules["parent"]) = 2
    /\ Rules["parent"][1].Do.op = "sub"
    /\ Rules["parent"][2].When = NilPred
    /\ \E n \in 1..Len(trace) :
          trace[n].ev = "error" /\ trace[n].c = "child" /\ trace[n].e = "e1"
    /\ res[0].err = "e1"
    /\ \A n \in 1..Len(trace) : trace[n] # [ev |-> "do", c |-> "parent", i |-> 2]

\* The child's run that ended right before position f of the trace called Stop.
ChildStopped(f) ==
    \E x \in 1..(f - 1) :
        /\ trace[x].ev = "stop" /\ trace[x].c = "child"
        /\ \A y \in (x + 1)..(f - 1) : ~(trace[y].c = "child" /\ trace[y].ev = "start")

\* C12: a stop requested in the child run by Subchain leaves the parent's stop
\* flag alone: the flag is set only by the parent's own Stop, and after a
\* Subchain action whose child stopped without an error the parent's Run goes
\* on to its next rule.
C12_ChildStopLocal ==
    /\ (/\ \E n \in 1..Len(trace) : trace[n] = [ev |-> "start", c |-> "parent"]
        /\ \A n \in 1..Len(trace) : ~(trace[n].ev = "stop" /\ trace[n].c = "parent"))
       => ~stop["parent"]
    /\ \A f \in 1..Len(trace) :
          (/\ trace[f].ev = "fold"
           /\ trace[f].err = NoErr
           /\ ChildStopped(f)
           /\ f < Len(trace)
           /\ trace[f + 1].ev = "done"
           /\ ~IsMutation(trace[f - 1]))
          => /\ trace[f + 1].c = "parent"
             /\ f + 1 < Len(trace) => Reaches("parent", trace[f + 1].i + 1, trace[f + 2])

\* The child stopped, and the parent's rule 2 started after the Subchain rule.
C12_Witness ==
    /\ Len(Rules["parent"]) = 2
    /\ Rules["parent"][1].Do.op = "sub"
    /\ \E f \in 1..Len(trace) :
          trace[f].ev = "fold" /\ trace[f].err = NoErr /\ ChildStopped(f)
    /\ \E n \in 1..Len(trace) : trace[n] = [ev |-> "do", c |-> "parent", i |-> 2]

\* Position k is where the Run before (a) and this Run (b) first differ.
FirstDiff(a, b, k) ==
    /\ k <= Len(a) /\ k <= Len(b)
    /\ a[k] # b[k]
    /\ \A j \in 1..(k - 1) : a[j] = b[j]

\* Events x and y, at the same position k > 1 of two Runs that agree before
\* k, differ by an external resource: loadResources failed in one Run only,
\* or a user function returned another value.
ExternalDiff(a, x, y, k) ==
    \/ a[k - 1].ev = "start" /\ (x.ev = "ret" \/ y.ev = "ret")
    \/ /\ x.ev = "when" /\ y.ev = "when"
       /\ x.c = y.c /\ x.i = y.i /\ x.v # y.v
       /\ Rules[x.c][x.i].When.kind = "leaf"

\* They differ by the order in which the goroutines of a Parallel ran.
ScheduleDiff(x, y) ==
    /\ x.ev \in {"requeue", "stop", "error"}
    /\ y.ev \in {"requeue", "stop", "error"}
    /\ x.by # 0 /\ y.by # 0

\* C13 as stated: the second of two Runs in a row, the external resources
\* unchanged, goes through the same events to the same result as the first.
C13_SameWhateverSchedule ==
    (At(0, "Report") /\ prev # <<>>) =>
        \/ trace = prev
        \/ \E k \in 2..Len(trace) :
              FirstDiff(prev, trace, k) /\ ExternalDiff(prev, prev[k], trace[k], k)

\* C13: a Run starts from stop false, err nil, delay zero and an empty cache,
\* whatever the Run before left; and the second of two Runs in a row, the
\* external resources unchanged and the goroutines of every Parallel running
\* in the same order, goes through the same events to the same result.
C13_RunTwice ==
    /\ (At(0, "Load") /\ Top(0).c = "parent") =>
          /\ ~stop["parent"]
          /\ err["parent"] = NoErr
          /\ interval["parent"] = 0
          /\ cache["parent"] = EmptyMap
    /\ (At(0, "Report") /\ prev # <<>>) =>
          \/ trace = prev
          \/ \E k \in 2..Len(trace) :
                /\ FirstDiff(prev, trace, k)
                /\ ExternalDiff(prev, prev[k], trace[k], k) \/ ScheduleDiff(prev[k], trace[k])

\* The first Run stopped at rule 2 with a delay left behind, and the second
\* Run went the same way to the same result.
C13_Witness ==
    /\ At(0, "Report")
    /\ prev # <<>>
    /\ trace = prev
    /\ Len(Rules["parent"]) = 2
    /\ \E n \in 1..Len(trace) : trace[n] = [ev |-> "stop", c |-> "parent", by |-> 0]
    /\ \E n \in 1..Len(trace) : trace[n] = [ev |-> "done", c |-> "parent", i |-> 2]
    /\ res[0].after > 0

\* C14: a Run in which an error was recorded, by Error or from a child,
\* returns an error, whatever was called after the error was recorded.
C14_ErrorKept ==
    \A c \in Chains :
        LET E == Ev(c) IN
        \A n \in 1..Len(E) :
            (/\ E[n].ev = "ret"
             /\ \E x \in RunUpTo(E, n) : IsError(E[x]) /\ ErrorOf(E[x]) # NoErr)
            => E[n].err # NoErr

\* A Subchain action of chain c has the child's result and has not yet folded
\* the child's delay.
FoldPending(c) == \E t \in Threads : At(t, "FoldRq") /\ Top(t).c = c

\* The delay of every chain is what its run accumulated: zero, or the smallest
\* positive delay requested so far.
DelayIsMin ==
    \A c \in Chains :
        LET E == Ev(c)
        IN (E # <<>> /\ ~FoldPending(c)) => interval[c] = Accumulated(E, Len(E))

\* The step is the start of a Run of chain c.
IsReset(c) ==
    /\ Len(trace') = Len(trace) + 1
    /\ trace'[Len(trace')] = [ev |-> "start", c |-> c]

\* The step is a call of Requeue with a delay that is not positive.
IsNullRequeue ==
    /\ Len(trace') = Len(trace) + 1
    /\ trace'[Len(trace')].ev = "requeue"
    /\ trace'[Len(trace')].d <= 0

\* A delay once set shrinks or stays until the next reset, and a request that
\* is not positive changes nothing of the run state.
DelayStep ==
    /\ \A c \in Chains :
          (interval[c] > 0 /\ ~IsReset(c)) =>
              interval'[c] > 0 /\ interval'[c] <= interval[c]
    /\ IsNullRequeue => UNCHANGED <<stop, err, interval>>

\* C15: in every state the delay of a run is zero or the smallest positive
\* delay requested so far in it; once set it never grows and is not zero
\* again before the next reset; Requeue with a zero or negative delay leaves
\* stop, err and the delay as they are.
C15_DelayMin == []DelayIsMin /\ [][DelayStep]_vars

\* The run asked for 2 and then for a negative delay: the delay is still 2.
C15_Witness ==
    /\ interval["parent"] = 2
    /\ \E m \in 1..Len(trace), n \in 1..Len(trace) :
          /\ m < n
          /\ trace[m].ev = "requeue" /\ trace[m].c = "parent" /\ trace[m].d = 2
          /\ trace[n].ev = "requeue" /\ trace[n].c = "parent" /\ trace[n].d < 0

\* Goroutine t is about to read or write stop, err or interval of chain c
\* without c.lock: the reset of Run, its halt check, its last return.
Unlocked(t, c) ==
    /\ stack[t] # <<>>
    /\ Top(t).pc \in {"Run", "Check", "Rule"}
    /\ Top(t).c = c
    /\ Top(t).pc = "Rule" => Top(t).i > Len(Rules[c])

\* Goroutine t is about to write one of them: the reset, a mutator, a fold.
Writes(t, c) ==
    /\ stack[t] # <<>>
    /\ \/ Top(t).pc = "Run" /\ Top(t).c = c
       \/ Top(t).pc \in {"FoldErr", "FoldRq"} /\ Top(t).c = c
       \/ /\ Top(t).pc = "Do"
          /\ Top(t).a.op \in {"requeue", "stop", "error"}
          /\ Top(t).a.c = c

\* C16: no goroutine reads or writes stop, err or the delay of a chain
\* without the chain's mutex while another goroutine is about to write them,
\* or writes them without it while another is about to read them.
C16_NoUnlockedAccess ==
    \A c \in Chains : \A t \in Threads : \A u \in Threads \ {t} :
        ~(Unlocked(t, c) /\ (Writes(u, c) \/ (Writes(t, c) /\ Unlocked(u, c))))

\* Goroutine t executes user code: a predicate's function or an action.
InUserCode(t) == stack[t] # <<>> /\ Top(t).pc \in {"Invoke", "Test", "Do"}

\* No goroutine holds a cache's or a chain's mutex while it executes user code.
NoLockInUserCode ==
    \A t \in Threads : InUserCode(t) => \A m \in Mutexes : t \notin lock[m]

\* While a call is in progress some goroutine can take a step.
NeverStuck == (\E t \in Threads : stack[t] # <<>>) => ENABLED Progress

\* C17: no mutex of a cache or a chain is held by a goroutine that executes a
\* predicate's function or an action; evaluating a composite predicate,
\* calling mutators from actions and running a Subchain never block for good;
\* and every call of Run and of Eval returns.
C17_NoDeadlock ==
    /\ []NoLockInUserCode
    /\ []NeverStuck
    /\ \A t \in Threads : (stack[t] # <<>>) ~> (stack[t] = <<>>)

\* And(p1, p2) made on K0 is being evaluated against K0: its function runs and
\* is about to evaluate its second child on the same cache.
C17_Witness ==
    /\ At(0, "Eval")
    /\ Top(0).k = "K0"
    /\ Len(stack[0]) >= 4
    /\ stack[0][2].pc = "Test"
    /\ stack[0][2].p.kind = "and"
    /\ stack[0][2].i = 2
    /\ stack[0][3].pc = "Add"
    /\ stack[0][3].k = "K0"

\* The invocations of p's function through cache k counted in m.
CountIn(m, k, p) == IF <<k, p>> \in DOMAIN m THEN m[<<k, p>>] ELSE 0

\* The children of composite predicate p.
KidsOf(p) == {p.kids[i] : i \in 1..Len(p.kids)}

\* C18: when Eval of a composite predicate on cache c ran the composite's
\* function, every child invoked in that call was invoked through c and is
\* memoized in c, no other cache has changed, and no child that was memoized
\* in c before the call was invoked.
C18_ChildrenSameCache ==
    (/\ clients = {0}
     /\ Returned(0)
     /\ Top(0).p.kind \in {"and", "or", "not"}
     /\ ~WasCached(Top(0)))
    => LET f == Top(0) IN
       /\ \A kid \in KidsOf(f.p) : \A k \in CacheIds :
             CountIn(calls, k, kid) > CountIn(f.base, k, kid) =>
                 /\ k = f.k
                 /\ kid \in DOMAIN cache[f.k]
                 /\ kid \notin DOMAIN f.before[f.k]
       /\ \A k \in CacheIds \ {f.k} : cache[k] = f.before[k]

\* The caches the evaluation of rule predicate p of chain c looks p and its
\* children up in: c.cache for p, and the cache the children are evaluated
\* against for each child.
Consulted(c, p) ==
    {<<c, p>>} \cup
    (IF p.kind \in {"and", "or", "not"} THEN {<<p.home, kid>> : kid \in KidsOf(p)} ELSE {})

\* A Run of chain c has made its reset and is about to load and go through
\* the rules.
RunStarts(t) == At(t, "Load")

\* C19: no memoized value survives from one Run to the next: when a Run has
\* made its reset, no predicate it can reach (a rule's predicate, a child of
\* a composite rule predicate) has a memoized value in the cache its
\* evaluation looks it up in, so each one reached is invoked in this Run.
C19_MemoNeverSurvives ==
    \A t \in Threads :
        RunStarts(t) =>
            LET c == Top(t).c IN
            \A i \in 1..Len(Rules[c]) :
                Rules[c][i].When # NilPred =>
                    \A kp \in Consulted(c, Rules[c][i].When) :
                        kp[2] \notin DOMAIN cache[kp[1]]

\* The frames of goroutine t from the innermost Run of the child outwards,
\* <<>> when t is not in a Run of the child.
ChildRun(t) ==
    LET S == {j \in 1..Len(stack[t]) : stack[t][j].pc = "FoldErr"}
    IN IF S = {} THEN <<>> ELSE SubSeq(stack[t], 1, SetMin(S) - 1)

InChildRun(t) == ChildRun(t) # <<>>

\* The caches the Runs around the child's evaluate against: the parent's
\* c.cache, or the cache its caller passed.
OuterCaches(t) ==
    {"parent"} \cup
    {stack[t][j].k : j \in {i \in 1..Len(stack[t]) : stack[t][i].pc = "Cache"
                                                      /\ stack[t][i].c # "child"}}

\* The child evaluates a rule predicate: cache.Eval(rule.When) is called.
ChildEvaluates(t) ==
    /\ At(t, "Eval")
    /\ Len(stack[t]) >= 2
    /\ stack[t][2].pc = "When"
    /\ stack[t][2].c = "child"

\* The child's rule predicate was invoked and is about to be memoized.
ChildMemoizes(t) ==
    /\ At(t, "Add")
    /\ Len(stack[t]) >= 2
    /\ stack[t][2].pc = "When"
    /\ stack[t][2].c = "child"

ChildCacheOwn ==
    \A t \in Threads :
        /\ ChildEvaluates(t) =>
              /\ Top(t).k \in CacheIds
              /\ Top(t).k \notin OuterCaches(t)
        /\ ChildMemoizes(t) =>
              /\ Top(t).k \in CacheIds
              /\ Count(Top(t).k, Top(t).p) = 1
        /\ ~At(t, "Panic")

ChildStepLocal ==
    (\E t \in Threads : InChildRun(t) /\ stack'[t] # stack[t])
        => /\ stop'["parent"] = stop["parent"]
           /\ err'["parent"] = err["parent"]
           /\ interval'["parent"] = interval["parent"]

\* C20: the child run by a Subchain action evaluates its rule predicates
\* against a cache that exists and is none of the caches of the Runs around
\* it, a predicate the parent evaluated too is invoked once more for the
\* child, and no step of the child's Run changes the parent's stop, error or
\* interval: the parent's state changes when the action folds the result.
C20_SubchainIndependent == []ChildCacheOwn /\ [][ChildStepLocal]_vars

\* Event e is the call of the mutator action a by goroutine t.
IsCallOf(e, a, t) ==
    /\ e.ev = a.op
    /\ e.c = a.c
    /\ e.by = t
    /\ a.op = "requeue" => e.d = a.d
    /\ a.op = "error" => e.e = a.e

\* The action of rule i of chain c, a Sequential of mutator actions, has
\* returned to Run in goroutine t, and Run is about to make its halt check.
SequentialReturned(t) ==
    /\ At(t, "Check")
    /\ LET a == Rules[Top(t).c][Top(t).i].Do IN
       /\ a.op = "seq"
       /\ \A h \in 1..Len(a.fns) : a.fns[h].op \in {"requeue", "stop", "error"}

\* The last error of fns, nil when there is none.
LastError(fns) ==
    LET S == {h \in 1..Len(fns) : fns[h].op = "error"}
    IN IF S = {} THEN NoErr ELSE fns[SetMax(S)].e

\* C21: when the action Sequential(fns) of a rule has returned, every fn was
\* called once and in the given order since the rule's action started, and
\* the run state is what the calls leave one after the other, a stop or an
\* error of an earlier fn notwithstanding: the stop flag is set iff a Stop is
\* among fns, the error is the last one recorded, and every positive delay
\* requested bounds the interval.
C21_SequentialAll ==
    \A t \in Threads :
        SequentialReturned(t) =>
            LET c == Top(t).c
                i == Top(t).i
                fns == Rules[c][i].Do.fns
                n == Len(fns)
                L == Len(trace)
            IN /\ L > n
               /\ trace[L - n] = [ev |-> "do", c |-> c, i |-> i]
               /\ \A h \in 1..n : IsCallOf(trace[L - n + h], fns[h], t)
               /\ stop[c] = (\E h \in 1..n : fns[h].op = "stop")
               /\ err[c] = LastError(fns)
               /\ \A h \in 1..n :
                     (fns[h].op = "requeue" /\ fns[h].d > 0)
                         => (0 < interval[c] /\ interval[c] <= fns[h].d)

\* Sequential(c.Stop(), c.Requeue(2)) returned: the stop is set and the
\* delay asked for after it is recorded.
C21_Witness ==
    /\ SequentialReturned(0)
    /\ Rules["parent"][Top(0).i].Do.fns[1].op = "stop"
    /\ stop["parent"]
    /\ interval["parent"] = 2
    /\ trace[Len(trace)].ev = "requeue"
====
